---- MODULE Spec2Model ----
(***************************************************************************)
(* Model of the two-sided hedging engine:                                  *)
(*   cnx_trade.py  - the futures hedger loop and its fok_taker             *)
(*   nbtx_trade.py - the spot maker loop and its track_and_cancel          *)
(*   pos_store.py  - the JSON position store                               *)
(* Quantities are integers counted in units of 1/Scale coin, prices and    *)
(* the divergence z are integers, time is counted in loop intervals        *)
(* (hedger, maker main loop) or poll ticks (track_and_cancel).             *)
(***************************************************************************)
EXTENDS Integers, Sequences, FiniteSets, Bags, TLC

VARIABLES
    cx_pc,            \* hedger: position in main()/fok_taker
    cx_now,           \* hedger: now, in intervals
    cx_last_stats_ts, \* hedger: last_stats_ts
    cx_mean,          \* hedger: mean
    cx_std,           \* hedger: std
    cx_z,             \* hedger: z of the current cycle (NoZ before live_diff)
    cx_cur,           \* hedger: cur
    cx_side,          \* hedger: side
    cx_need,          \* hedger: need
    cx_prec,          \* hedger: qty_prec (configuration)
    fok,              \* hedger: locals and call log of the fok_taker call in progress
    cx_ok,            \* hedger: ok, what fok_taker returned: "True", "False"
    cx_exc,           \* hedger: the call whose exception ended the process
    vpos,             \* futures venue: net position in the symbol
    ord,              \* futures venue: the resting limit order
    store,            \* pos_store: the entry of the symbol in the store file
    writes,           \* pos_store: write_pos calls made in the current cycle
    cx_attempts,      \* hedger: fok_taker calls made in the current cycle
    cx_log,           \* hedger: what lines 244-254 saw and stored in the current cycle
    nb_pc,            \* maker: position in main()/track_and_cancel
    nb_now,           \* maker: now, in intervals
    nb_last_stats,    \* maker: last_stats
    nb_mean,          \* maker: mean
    nb_std,           \* maker: std
    nb_z,             \* maker: z of the current cycle
    nb_b_units,       \* maker: b_units of the current cycle
    nb_side,          \* maker: side
    nb_orders,        \* maker: new_order calls made in the current cycle
    nb_ord,           \* spot venue: the maker's resting order
    nb_rest,          \* spot venue: the bag of orders left resting by earlier cycles
    holding,          \* spot venue: the balance of the coin
    trk,              \* maker: locals and call log of track_and_cancel
    nb_ret,           \* maker: what track_and_cancel returned
    nb_exc,           \* maker: the call whose exception main's handler is handling
    fs_path,          \* file system: the file the store path names
    fs_tmp,           \* file system: the file the path + ".tmp" names
    inode,            \* file system: the content of each file, chunk by chunk
    wp,               \* pos_store: the write_pos call of each instance
    rd,               \* pos_store: what the last read_pos call found and returned
    dec               \* hedger: one pass of lines 215-238 on given inputs, and its result

nb_vars == <<nb_pc, nb_now, nb_last_stats, nb_mean, nb_std, nb_z, nb_b_units,
             nb_side, nb_orders, nb_ord, nb_rest, holding, trk, nb_ret, nb_exc>>

\* the files of the store and the calls working on them
ps_vars == <<fs_path, fs_tmp, inode, wp, rd>>

\* the hedger's variables, without the store both programs read
cx_own == <<cx_pc, cx_now, cx_last_stats_ts, cx_mean, cx_std, cx_z, cx_cur,
            cx_side, cx_need, cx_prec, fok, cx_ok, cx_exc, vpos, ord, writes, cx_attempts,
            cx_log>>

-----------------------------------------------------------------------------
\* Bounds of the model.

\* quantity precisions 0..MaxPrec are followed; one coin is Scale = 10^MaxPrec units
MaxPrec == 1
\* each loop is followed for this many intervals after its start
MaxCycles == 2
\* the largest spot holding read_balance reports, in coins
MaxHolding == 2
\* the rolling standard deviations window_stats reports are 0..MaxStd
MaxStd == 1
\* prices of the spot book are 1..MaxPrice
MaxPrice == 3

RECURSIVE Pow10(_)
Pow10(n) == IF n <= 0 THEN 1 ELSE 10 * Pow10(n - 1)

Scale == Pow10(MaxPrec)

\* Configuration of the run (config_edt.json), quantities in units.
k == 1
\* window_min, counted in loop intervals
wmin == 1
l_units == 0 * Scale
u_units == 2 * Scale
t_units == 1 * Scale
order_qty == 1 * Scale
min_qty == 0
\* timeout_sec, counted in poll ticks
timeout_sec == 1
\* w_buy and w_sell, counted in halves: 2 is the weight 1.0
w_buy == 2
w_sell == 2
\* the mean window_stats reports when the window holds observations
Mean0 == 10
\* the venue matches a resting order in lots of half a coin
Lot == Scale \div 2

NONE == "none"
\* z before live_diff has been called in the cycle, and z once it has
NoZ == <<>>
Z(z) == <<z>>
Abs(x) == IF x < 0 THEN -x ELSE x
Max(a, b) == IF a >= b THEN a ELSE b

-----------------------------------------------------------------------------
\* cnx_trade.py helpers

\* round_qty: floor(q) for prec <= 0, else floor(q * 10^prec) / 10^prec
round_qty(q, prec) ==
    IF prec <= 0 THEN (q \div Scale) * Scale
    ELSE ((q * Pow10(prec)) \div Scale) * (Scale \div Pow10(prec))

\* center_from_b: 0.5*(l_units + u_units) - b_units
center_from_bBroken(b_units, l, u) == (l + u) \div 2
center_from_b(b_units, l, u) == ((l + u) \div 2) - b_units

\* main: lower, upper = mean - k*std, mean + k*std
lower(mean, std) == mean - k * std
upper(mean, std) == mean + k * std

\* main: "only act if signal": not (z > upper or z < lower) -> continue
HasSignalBroken(z, mean, std) == z >= upper(mean, std) \/ z <= lower(mean, std)
HasSignal(z, mean, std) == z > upper(mean, std) \/ z < lower(mean, std)

\* fok_taker: matched >= requested - 1e-12 (quantities are whole units here)
FullyMatchedBroken(matched, requested) == matched > requested
FullyMatched(matched, requested) == matched >= requested

\* fok_taker: rev_side = "sell" if side == "buy" else "buy"
rev_sideBroken(side) == side
rev_side(side) == IF side = "buy" THEN "sell" ELSE "buy"

\* position change of a fill of d units on a side
Signed(side, d) == IF side = "buy" THEN d ELSE -d

\* pos_store entries: nothing stored (read_pos gives None), the record write_pos
\* stores, or a bare JSON number found in the file
NoEntry == [kind |-> "none", q |-> 0]
RecEntry(q) == [kind |-> "rec", q |-> q]
NumEntry(q) == [kind |-> "num", q |-> q]

NoOrder == [open |-> FALSE, side |-> NONE, qty |-> 0, filled |-> 0]
\* fok_taker's locals (q, matched) and the venue calls it has made so far
NoFok == [q |-> 0, sent |-> FALSE, placed |-> FALSE, checked |-> FALSE, matched |-> 0,
          pos0 |-> 0, nCancel |-> 0, cancelRaised |-> FALSE, raised |-> FALSE,
          reverts |-> <<>>]

\* nothing reconciled yet in this cycle
NoLog == [ok |-> NONE, api |-> FALSE, venue |-> 0, cur |-> 0, side |-> NONE, need |-> 0,
          q |-> 0, placed |-> FALSE, matched |-> 0]

\* live divergences: below, on, inside and above the band of the statistics
ZValues(mean, std) ==
    {lower(mean, std) - 1, lower(mean, std), mean, upper(mean, std), upper(mean, std) + 1}
BUnits == {h * Scale : h \in 0 .. MaxHolding}

\* a value held by a Python variable that should be a number: a number, the
\* dict write_pos stores, or None
Num(n) == [kind |-> "num", q |-> n]
IsNum(v) == v.kind = "num"

\* read_pos: data.get(symbol), None when nothing is stored or on any error
read_pos(entry) == entry

\* get_coinex_pos: the venue's position when the query succeeds and lists a
\* position, else read_pos(store_path, symbol)
get_coinex_pos(api, pos, entry) == IF api THEN Num(pos) ELSE read_pos(entry)

-----------------------------------------------------------------------------
\* Hedger (cnx_trade.py main)

CxInit ==
    /\ cx_pc = "loop"
    /\ cx_now = wmin + 1
    /\ cx_last_stats_ts = 0
    /\ cx_mean = 0
    /\ cx_std = 0
    /\ cx_z = NoZ
    /\ cx_cur = 0
    /\ cx_side = NONE
    /\ cx_need = 0
    /\ cx_prec \in 0 .. MaxPrec
    /\ fok = NoFok
    /\ cx_ok = NONE
    /\ cx_exc = NONE
    /\ vpos = Lot
    /\ ord = NoOrder
    /\ store = NoEntry
    /\ writes = 0
    /\ cx_attempts = 0
    /\ cx_log = NoLog

\* the locals of one cycle are dead once the cycle ends
CxEndCycle ==
    /\ cx_pc' = "loop"
    /\ UNCHANGED cx_exc
    /\ cx_z' = NoZ
    /\ cx_cur' = 0
    /\ cx_side' = NONE
    /\ cx_need' = 0
    /\ fok' = NoFok
    /\ cx_ok' = NONE

\* an exception nothing catches ends the process, and its locals with it
CxCrash(call) ==
    /\ cx_pc' = "crashed"
    /\ cx_exc' = call
    /\ cx_z' = NoZ
    /\ cx_cur' = 0
    /\ cx_side' = NONE
    /\ cx_need' = 0
    /\ fok' = NoFok
    /\ cx_ok' = NONE

\* main, lines 203-212: sleep, refresh the statistics when due, skip when std <= 0
CxRefresh ==
    /\ UNCHANGED <<nb_vars, ps_vars, dec>>
    /\ cx_pc = "loop"
    /\ cx_now < wmin + 1 + MaxCycles
    /\ cx_now' = cx_now + 1
    /\ writes' = 0
    /\ cx_attempts' = 0
    /\ cx_log' = NoLog
    /\ UNCHANGED <<cx_prec, vpos, ord, store>>
    /\ \/ /\ cx_now' - cx_last_stats_ts > wmin
          /\ \E s \in 0 .. MaxStd :
                /\ cx_mean' = Mean0
                /\ cx_std' = s
                /\ cx_last_stats_ts' = cx_now'
                /\ cx_pc' = IF s <= 0 THEN "loop" ELSE "live"
          /\ UNCHANGED <<cx_z, cx_cur, cx_side, cx_need, fok, cx_ok, cx_exc>>
       \/ \* window_stats: the fallback's live_diff raises, nothing catches it
          /\ cx_now' - cx_last_stats_ts > wmin
          /\ CxCrash("window_stats")
          /\ UNCHANGED <<cx_mean, cx_std, cx_last_stats_ts>>
       \/ /\ ~(cx_now' - cx_last_stats_ts > wmin)
          /\ cx_pc' = "live"
          /\ UNCHANGED <<cx_mean, cx_std, cx_last_stats_ts,
                         cx_z, cx_cur, cx_side, cx_need, fok, cx_ok, cx_exc>>

\* main, lines 215-234: live_diff, the signal test, target, cur, delta, need
CxSignal ==
    /\ UNCHANGED <<nb_vars, ps_vars, dec>>
    /\ cx_pc = "live"
    /\ UNCHANGED <<cx_now, cx_last_stats_ts, cx_mean, cx_std, cx_prec,
                   vpos, ord, store, writes, cx_attempts, cx_log>>
    /\ \/ \* live_diff or read_balance raises
          \E call \in {"live_diff", "read_balance"} : CxCrash(call)
       \/ \E z \in ZValues(cx_mean, cx_std) :
             /\ ~HasSignal(z, cx_mean, cx_std)
             /\ CxEndCycle
       \/ \E z \in ZValues(cx_mean, cx_std), b_units \in BUnits, api \in BOOLEAN :
             LET target == center_from_b(b_units, l_units, u_units)
                 cur == get_coinex_pos(api, vpos, store)
             IN  /\ HasSignal(z, cx_mean, cx_std)
                 /\ IF ~IsNum(cur)
                    THEN \* delta = target - cur: TypeError on a dict or None
                         CxCrash("delta")
                    ELSE LET delta == target - cur.q
                             need == Abs(delta)
                         IN  IF need <= min_qty
                             THEN CxEndCycle
                             ELSE /\ cx_z' = Z(z)
                                  /\ cx_cur' = cur.q
                                  /\ cx_side' = IF delta > 0 THEN "buy" ELSE "sell"
                                  /\ cx_need' = need
                                  /\ cx_pc' = "price"
                                  /\ UNCHANGED <<fok, cx_ok, cx_exc>>

\* main, lines 237-241, and fok_taker, lines 136-151: coinex_best, then the
\* rounding, the trivial success and the limit order of fok_taker
CxPlace ==
    /\ UNCHANGED <<nb_vars, ps_vars, dec>>
    /\ cx_pc = "price"
    /\ UNCHANGED <<cx_now, cx_last_stats_ts, cx_mean, cx_std, cx_prec,
                   vpos, store, writes, cx_log>>
    /\ LET q == Max(0, round_qty(cx_need, cx_prec))
           call == [NoFok EXCEPT !.q = q, !.pos0 = vpos]
           args == <<cx_z, cx_cur, cx_side, cx_need>>
       IN  \/ \* coinex_best raises
              /\ CxCrash("coinex_best")
              /\ UNCHANGED <<ord, cx_attempts>>
           \/ /\ q <= 0
              /\ UNCHANGED args
              /\ UNCHANGED cx_exc
              /\ cx_attempts' = cx_attempts + 1
              /\ fok' = call
              /\ cx_ok' = "True"
              /\ cx_pc' = "reconcile"
              /\ UNCHANGED ord
           \/ \* cx.open_order raises: logged, return False
              /\ q > 0
              /\ UNCHANGED args
              /\ UNCHANGED cx_exc
              /\ cx_attempts' = cx_attempts + 1
              /\ fok' = [call EXCEPT !.sent = TRUE, !.raised = TRUE]
              /\ cx_ok' = "False"
              /\ cx_pc' = "reconcile"
              /\ UNCHANGED ord
           \/ /\ q > 0
              /\ UNCHANGED args
              /\ UNCHANGED cx_exc
              /\ cx_attempts' = cx_attempts + 1
              /\ fok' = [call EXCEPT !.sent = TRUE, !.placed = TRUE]
              /\ ord' = [open |-> TRUE, side |-> cx_side, qty |-> q, filled |-> 0]
              /\ cx_pc' = "placed"
              /\ UNCHANGED cx_ok

\* the futures venue matches part of the resting limit order; for an order a
\* finished call left open the matches are followed until the next cycle starts
CxVenueMatch ==
    /\ UNCHANGED <<nb_vars, ps_vars, dec>>
    /\ ord.open
    /\ cx_pc \in {"placed", "cancel", "revert", "reconcile", "loop"}
    /\ \E j \in 1 .. ((ord.qty - ord.filled) \div Lot) :
          LET d == j * Lot
          IN  /\ ord' = [ord EXCEPT !.filled = @ + d,
                                    !.open = (ord.filled + d < ord.qty)]
              /\ vpos' = vpos + Signed(ord.side, d)
    /\ UNCHANGED <<cx_pc, cx_now, cx_last_stats_ts, cx_mean, cx_std, cx_z, cx_cur,
                   cx_side, cx_need, cx_prec, fok, cx_ok, cx_exc, store, writes, cx_attempts, cx_log>>

\* fok_taker, lines 154-162: wait, check_order, return True when fully matched
CxCheck ==
    /\ UNCHANGED <<nb_vars, ps_vars, dec>>
    /\ cx_pc = "placed"
    /\ UNCHANGED <<cx_now, cx_last_stats_ts, cx_mean, cx_std, cx_prec, cx_exc,
                   cx_z, cx_cur, cx_side, cx_need, vpos, ord, store, writes, cx_attempts, cx_log>>
    /\ \/ \* cx.check_order raises: logged, return False
          /\ fok' = [fok EXCEPT !.raised = TRUE]
          /\ cx_ok' = "False"
          /\ cx_pc' = "reconcile"
       \/ LET matched == ord.filled
              requested == fok.q
          IN  /\ fok' = [fok EXCEPT !.checked = TRUE, !.matched = matched]
              /\ IF FullyMatched(matched, requested)
                 THEN cx_ok' = "True" /\ cx_pc' = "reconcile"
                 ELSE cx_ok' = cx_ok /\ cx_pc' = "cancel"

\* fok_taker, lines 163-166 and 173: cancel_order, then revert when matched > 0
CxCancel ==
    /\ UNCHANGED <<nb_vars, ps_vars, dec>>
    /\ cx_pc = "cancel"
    /\ UNCHANGED <<cx_now, cx_last_stats_ts, cx_mean, cx_std, cx_prec, cx_exc,
                   cx_z, cx_cur, cx_side, cx_need, vpos, store, writes,
                   cx_attempts, cx_log>>
    /\ \/ \* cx.cancel_order raises, before or after the venue acted on it:
          \* logged by the outer handler, return False without a revert
          /\ \E acted \in BOOLEAN :
                ord' = [ord EXCEPT !.open = IF acted THEN FALSE ELSE @]
          /\ fok' = [fok EXCEPT !.nCancel = @ + 1, !.cancelRaised = TRUE,
                                !.raised = TRUE]
          /\ cx_ok' = "False"
          /\ cx_pc' = "reconcile"
       \/ /\ ord' = [ord EXCEPT !.open = FALSE]
          /\ fok' = [fok EXCEPT !.nCancel = @ + 1]
          /\ IF fok.matched > 0
             THEN cx_ok' = cx_ok /\ cx_pc' = "revert"
             ELSE cx_ok' = "False" /\ cx_pc' = "reconcile"

\* fok_taker, lines 166-173: market order on the opposite side for matched
CxRevert ==
    /\ UNCHANGED <<nb_vars, ps_vars, dec>>
    /\ cx_pc = "revert"
    /\ UNCHANGED <<cx_now, cx_last_stats_ts, cx_mean, cx_std, cx_prec, cx_exc,
                   cx_z, cx_cur, cx_side, cx_need, ord, store, writes,
                   cx_attempts, cx_log>>
    /\ cx_ok' = "False"
    /\ cx_pc' = "reconcile"
    /\ LET rev == [side |-> rev_side(cx_side), qty |-> fok.matched]
       IN  \/ \* the market order is executed in full
              /\ fok' = [fok EXCEPT !.reverts = Append(@, rev)]
              /\ vpos' = vpos + Signed(rev.side, rev.qty)
           \/ \* cx.open_order raises: "revert market failed" is logged
              /\ fok' = [fok EXCEPT !.reverts = Append(@, rev), !.raised = TRUE]
              /\ UNCHANGED vpos

\* write_pos: data[sym] = {"q": qty, "side": ..., "time": ...}, replace the file
write_pos(qty) == RecEntry(qty)

\* Python's ==: a number equals a number of the same value, a dict or None
\* equals only itself
PyEq(a, b) == a = b

\* main, lines 244-254: both branches call write_pos once
WritesAfter(ok, n) == n + 1

\* main, line 248: the position after a fill, computed locally
local_updateBroken(cur, side, need) == cur + need
local_update(cur, side, need) == cur + (IF side = "buy" THEN need ELSE -need)

\* main, lines 243-254: store the position after the attempt
CxReconcile ==
    /\ UNCHANGED <<nb_vars, ps_vars, dec>>
    /\ cx_pc = "reconcile"
    /\ ord' = IF ord.open THEN ord ELSE NoOrder
    /\ UNCHANGED <<cx_now, cx_last_stats_ts, cx_mean, cx_std, cx_prec, vpos,
                   cx_attempts>>
    /\ writes' = WritesAfter(cx_ok, writes)
    /\ \/ \* write_pos raises (the store cannot be written)
          /\ CxCrash("write_pos")
          /\ UNCHANGED <<store, cx_log>>
       \/ /\ cx_ok = "True"
          /\ \E api \in BOOLEAN :
                LET got == get_coinex_pos(api, vpos, store)
                    new_pos == IF PyEq(got, read_pos(store))
                               THEN Num(local_update(cx_cur, cx_side, cx_need))
                               ELSE got
                IN  /\ store' = write_pos(new_pos.q)
                    /\ cx_log' = [ok |-> cx_ok, api |-> api, venue |-> vpos,
                                  cur |-> cx_cur, side |-> cx_side, need |-> cx_need,
                                  q |-> fok.q, placed |-> fok.placed,
                                  matched |-> fok.matched]
          /\ CxEndCycle
       \/ /\ cx_ok = "False"
          /\ store' = write_pos(cx_cur)
          /\ cx_log' = [NoLog EXCEPT !.ok = cx_ok, !.cur = cx_cur]
          /\ CxEndCycle

-----------------------------------------------------------------------------
\* Maker (nbtx_trade.py)

\* top of book of the spot market: best bid below best ask
Books == {bk \in (1 .. MaxPrice) \X (1 .. MaxPrice) : bk[1] < bk[2]}

Outcomes == {"FILLED", "NOT_BEST", "NO_SIGNAL", "TIMEOUT"}

\* window_stats (maker): (mean, std, n) of the window, (0, 0, 0) when n < 2
StatsValues == {<<0, 0>>} \cup {<<Mean0, s>> : s \in 0 .. MaxStd}

\* weighted_limit_price: weight*near + (1 - weight)*far, weight counted in halves
weighted_limit_price(side, best_bid, best_ask, w2) ==
    (w2 * (IF side = "buy" THEN best_bid ELSE best_ask)
       + (2 - w2) * (IF side = "buy" THEN best_ask ELSE best_bid)) \div 2

\* within_tobit_window: center - t_units < pos < center + t_units
within_tobit_window(b_units, pos) ==
    LET center == ((l_units + u_units) \div 2) - b_units
    IN  center - t_units < pos /\ pos < center + t_units

\* main: the inventory guards of the buy and of the sell branch
BuyBlocked(b_units) == b_units + order_qty > u_units
SellBlocked(b_units) == b_units - order_qty < l_units

\* track_and_cancel, line 94: info.get("Price", best_ask if side=="buy" else best_bid)
order_price(side, hasPrice, price, best_bid, best_ask) ==
    IF hasPrice THEN price ELSE IF side = "buy" THEN best_ask ELSE best_bid

\* track_and_cancel, line 98: terminal status and unmatchedAmount zero
IsFilled(status, unmatched) ==
    status \in {"finished", "filled", "done", "complete"} /\ unmatched = 0

\* track_and_cancel, lines 103 and 106: no longer the best price on its side
NotBest(side, price, best_bid, best_ask) ==
    \/ side = "buy" /\ price < best_bid
    \/ side = "sell" /\ price > best_ask

\* track_and_cancel, line 112: (mean - k*std) < z < (mean + k*std)
SignalVanishedBroken(z, mean, std) == mean - k * std <= z /\ z <= mean + k * std
SignalVanished(z, mean, std) == mean - k * std < z /\ z < mean + k * std

\* track_and_cancel, lines 97-108: what follows the status check of a poll tick
AfterCheck(side, status, unmatched, price, best_bid, best_ask) ==
    IF IsFilled(status, unmatched) THEN "FILLED"
    ELSE IF NotBest(side, price, best_bid, best_ask) THEN "NOT_BEST"
    ELSE "diff"

\* track_and_cancel, lines 110-120: what follows live_diff in a poll tick
AfterDiff(z, mean, std, elapsed) ==
    IF SignalVanished(z, mean, std) THEN "NO_SIGNAL"
    ELSE IF elapsed > timeout_sec THEN "TIMEOUT"
    ELSE "sleep"

NoSpotOrder == [open |-> FALSE, side |-> NONE, price |-> 0, qty |-> 0, filled |-> 0]
\* track_and_cancel's locals in the current poll tick, its calls of cancel_order
\* and, in kept during the sleep after a tick that left the order resting, the
\* z that tick saw
NoTrk == [entered |-> FALSE, elapsed |-> 0, bid |-> 0, ask |-> 0, checked |-> FALSE,
          status |-> NONE, matched |-> 0, unmatched |-> 0, price |-> 0,
          z |-> NoZ, reason |-> NONE, cancels |-> 0, kept |-> NoZ]
NoRet == [state |-> NONE, matched |-> 0, notional |-> 0]

NbInit ==
    /\ nb_pc = "loop"
    /\ nb_now = wmin + 1
    /\ nb_last_stats = 0
    /\ nb_mean = 0
    /\ nb_std = 0
    /\ nb_z = NoZ
    /\ nb_b_units = 0
    /\ nb_side = NONE
    /\ nb_orders = 0
    /\ nb_ord = NoSpotOrder
    /\ nb_rest = EmptyBag
    /\ holding \in BUnits
    /\ trk = NoTrk
    /\ nb_ret = NoRet
    /\ nb_exc = NONE

\* the locals of one cycle are dead once the cycle ends
NbEndCycle ==
    /\ nb_pc' = "loop"
    /\ nb_exc' = NONE
    /\ nb_b_units' = 0
    /\ trk' = NoTrk
    /\ nb_ret' = NoRet

\* an exception leaves the try block of main for the handler of lines 242-245
NbRaise(call) ==
    /\ nb_pc' = "except"
    /\ nb_exc' = call
    /\ UNCHANGED <<nb_b_units, trk, nb_ret>>

\* main, lines 192-227: route the signal to a buy or a sell, guard the
\* inventory, price the order and place it with new_order
NbPlace(z, b_units, best_bid, best_ask) ==
    LET side == IF z > upper(nb_mean, nb_std) THEN "buy"
                ELSE IF z < lower(nb_mean, nb_std) THEN "sell"
                ELSE NONE
        blocked == IF side = "buy" THEN BuyBlocked(b_units) ELSE SellBlocked(b_units)
        price == weighted_limit_price(side, best_bid, best_ask,
                                      IF side = "buy" THEN w_buy ELSE w_sell)
    IN  /\ nb_side' = side
        /\ \/ \* no signal: nothing to do in this cycle
              /\ side = NONE
              /\ NbEndCycle
              /\ UNCHANGED <<nb_orders, nb_ord>>
           \/ \* "would exceed u_units" / "would fall below l_units"
              /\ side # NONE /\ blocked
              /\ NbEndCycle
              /\ UNCHANGED <<nb_orders, nb_ord>>
           \/ \* new_order raises
              /\ side # NONE /\ ~blocked
              /\ nb_orders' = nb_orders + 1
              /\ nb_pc' = "except"
              /\ nb_exc' = "new_order"
              /\ nb_b_units' = b_units
              /\ UNCHANGED <<nb_ord, trk, nb_ret>>
           \/ \* the order is rejected: logged, the cycle ends
              /\ side # NONE /\ ~blocked
              /\ nb_orders' = nb_orders + 1
              /\ NbEndCycle
              /\ UNCHANGED nb_ord
           \/ \* the order rests on the book; track_and_cancel starts
              /\ side # NONE /\ ~blocked
              /\ nb_orders' = nb_orders + 1
              /\ nb_b_units' = b_units
              /\ nb_ord' = [open |-> TRUE, side |-> side, price |-> price,
                            qty |-> order_qty, filled |-> 0]
              /\ trk' = [NoTrk EXCEPT !.entered = TRUE]
              /\ nb_pc' = "t_book"
              /\ UNCHANGED <<nb_ret, nb_exc>>

\* main, lines 165-173: sleep, refresh the statistics when due, skip when std <= 0
NbRefresh ==
    /\ UNCHANGED <<cx_own, ps_vars, dec>>
    /\ nb_pc = "loop"
    /\ nb_now < wmin + 1 + MaxCycles
    /\ nb_now' = nb_now + 1
    /\ nb_z' = NoZ
    /\ nb_side' = NONE
    /\ nb_orders' = 0
    /\ UNCHANGED <<nb_ord, nb_rest, holding, store>>
    /\ \/ /\ nb_now' - nb_last_stats > wmin
          /\ \E st \in StatsValues :
                /\ nb_mean' = st[1]
                /\ nb_std' = st[2]
                /\ nb_last_stats' = nb_now'
                /\ nb_pc' = IF st[2] <= 0 THEN "loop" ELSE "live"
          /\ UNCHANGED <<nb_b_units, trk, nb_ret, nb_exc>>
       \/ \* window_stats raises (the observation store cannot be read)
          /\ nb_now' - nb_last_stats > wmin
          /\ NbRaise("window_stats")
          /\ UNCHANGED <<nb_mean, nb_std, nb_last_stats>>
       \/ /\ ~(nb_now' - nb_last_stats > wmin)
          /\ nb_pc' = "live"
          /\ UNCHANGED <<nb_mean, nb_std, nb_last_stats,
                         nb_b_units, trk, nb_ret, nb_exc>>

\* main, lines 176-227, up to the call of track_and_cancel: live_diff,
\* read_balance, the position guard, the book, the routing of the signal to a
\* buy or a sell, the inventory guard, the price and new_order
NbSignal ==
    /\ UNCHANGED <<cx_own, ps_vars, dec>>
    /\ nb_pc = "live"
    /\ UNCHANGED <<nb_now, nb_last_stats, nb_mean, nb_std, nb_rest, holding, store>>
    /\ \/ \* live_diff raises
          /\ NbRaise("live_diff")
          /\ UNCHANGED <<nb_z, nb_b_units, nb_side, nb_orders, nb_ord>>
       \/ \E z \in ZValues(nb_mean, nb_std) :
             /\ nb_z' = Z(z)
             /\ \/ \* read_balance or get_nobitex_orderbook raises
                   /\ \E call \in {"read_balance", "get_nobitex_orderbook"} :
                         NbRaise(call)
                   /\ UNCHANGED <<nb_b_units, nb_side, nb_orders, nb_ord>>
                \/ \* within_tobit_window compares a dict or None with a
                   \* float: TypeError
                   /\ ~IsNum(read_pos(store))
                   /\ NbRaise("within_tobit_window")
                   /\ UNCHANGED <<nb_b_units, nb_side, nb_orders, nb_ord>>
                \/ \* "skip: CoinEx pos outside"
                   /\ IsNum(read_pos(store))
                   /\ ~within_tobit_window(holding, read_pos(store).q)
                   /\ NbEndCycle
                   /\ UNCHANGED <<nb_side, nb_orders, nb_ord>>
                \/ /\ IsNum(read_pos(store))
                   /\ within_tobit_window(holding, read_pos(store).q)
                   /\ \E bk \in Books : NbPlace(z, holding, bk[1], bk[2])

\* what track_and_cancel leaves untouched
NbTrackFrame ==
    UNCHANGED <<nb_now, nb_last_stats, nb_mean, nb_std, nb_z, nb_b_units,
                nb_side, nb_orders, nb_rest, holding, store>>

\* track_and_cancel, lines 86-88: top of book at the start of a poll tick
NbTrackBook ==
    /\ UNCHANGED <<cx_own, ps_vars, dec>>
    /\ nb_pc = "t_book"
    /\ NbTrackFrame
    /\ UNCHANGED <<nb_ord, nb_ret>>
    /\ \/ \* get_nobitex_orderbook fails or the book is empty
          /\ nb_pc' = "except"
          /\ nb_exc' = "get_nobitex_orderbook"
          /\ UNCHANGED trk
       \/ \E bk \in Books :
             /\ trk' = [trk EXCEPT !.bid = bk[1], !.ask = bk[2], !.kept = NoZ]
             /\ nb_pc' = "t_check"
             /\ UNCHANGED nb_exc

\* track_and_cancel, lines 91-108: check_order, the fill check, the best-price check
NbTrackCheck ==
    /\ UNCHANGED <<cx_own, ps_vars, dec>>
    /\ nb_pc = "t_check"
    /\ NbTrackFrame
    /\ UNCHANGED <<nb_ord, nb_exc>>
    /\ \E hasPrice \in BOOLEAN :
          LET status == IF nb_ord.filled >= nb_ord.qty THEN "done" ELSE "active"
              matched == nb_ord.filled
              unmatched == nb_ord.qty - nb_ord.filled
              price == order_price(nb_side, hasPrice, nb_ord.price, trk.bid, trk.ask)
              next == AfterCheck(nb_side, status, unmatched, price, trk.bid, trk.ask)
              seen == [trk EXCEPT !.checked = TRUE, !.status = status,
                                  !.matched = matched, !.unmatched = unmatched,
                                  !.price = price]
          IN  \/ /\ next = "FILLED"
                 /\ trk' = seen
                 /\ nb_ret' = [state |-> "FILLED", matched |-> matched,
                               notional |-> matched * price]
                 /\ nb_pc' = "tracked"
              \/ /\ next = "NOT_BEST"
                 /\ trk' = [seen EXCEPT !.reason = "NOT_BEST"]
                 /\ nb_pc' = "t_cancel"
                 /\ UNCHANGED nb_ret
              \/ /\ next = "diff"
                 /\ trk' = seen
                 /\ nb_pc' = "t_diff"
                 /\ UNCHANGED nb_ret

\* track_and_cancel, lines 110-120: live_diff, the signal check, the timeout
\* check, the sleep before the next poll tick
NbTrackDiff ==
    /\ UNCHANGED <<cx_own, ps_vars, dec>>
    /\ nb_pc = "t_diff"
    /\ NbTrackFrame
    /\ UNCHANGED <<nb_ord, nb_ret>>
    /\ \/ \* live_diff raises: an order book is empty or unavailable
          /\ nb_pc' = "except"
          /\ nb_exc' = "live_diff"
          /\ UNCHANGED trk
       \/ \E z \in ZValues(nb_mean, nb_std) :
             LET next == AfterDiff(z, nb_mean, nb_std, trk.elapsed)
             IN  \/ /\ next \in {"NO_SIGNAL", "TIMEOUT"}
                    /\ trk' = [trk EXCEPT !.z = Z(z), !.reason = next]
                    /\ nb_pc' = "t_cancel"
                    /\ UNCHANGED nb_exc
                 \/ /\ next = "sleep"
                    /\ trk' = [NoTrk EXCEPT !.entered = TRUE,
                                             !.elapsed = trk.elapsed + 1,
                                             !.kept = Z(z)]
                    /\ nb_pc' = "t_book"
                    /\ UNCHANGED nb_exc

\* track_and_cancel, lines 105, 108, 114, 118: cancel_order and the return
NbTrackCancel ==
    /\ UNCHANGED <<cx_own, ps_vars, dec>>
    /\ nb_pc = "t_cancel"
    /\ NbTrackFrame
    /\ UNCHANGED nb_exc
    /\ nb_ord' = [nb_ord EXCEPT !.open = FALSE]
    /\ trk' = [trk EXCEPT !.cancels = @ + 1]
    /\ nb_ret' = [state |-> trk.reason, matched |-> trk.matched,
                  notional |-> trk.matched * trk.price]
    /\ nb_pc' = "tracked"

\* main, lines 206-207 / 224-225 and 229-237: record the trade, end the cycle
NbAfterTrack ==
    /\ UNCHANGED <<cx_own, ps_vars, dec>>
    /\ nb_pc = "tracked"
    /\ nb_ord' = NoSpotOrder
    /\ UNCHANGED <<nb_now, nb_last_stats, nb_mean, nb_std, nb_z, nb_side, nb_orders,
                   nb_rest, holding, store>>
    /\ NbEndCycle

\* main, lines 242-245: log the error, back off, start the next cycle
NbExcept ==
    /\ UNCHANGED <<cx_own, ps_vars, dec>>
    /\ nb_pc = "except"
    /\ nb_ord' = NoSpotOrder
    /\ nb_rest' = IF nb_ord.open
                  THEN nb_rest (+) SetToBag({[side |-> nb_ord.side,
                                              left |-> nb_ord.qty - nb_ord.filled]})
                  ELSE nb_rest
    /\ UNCHANGED <<nb_now, nb_last_stats, nb_mean, nb_std, nb_z, nb_side, nb_orders,
                   holding, store>>
    /\ NbEndCycle

\* a spot venue sells only coins the account holds
CanMatch(side, d) == side = "sell" => d <= holding

\* the spot venue matches part of the maker's resting order
NbVenueMatch ==
    /\ UNCHANGED <<cx_own, ps_vars, dec>>
    /\ nb_ord.open
    /\ \E j \in 1 .. ((nb_ord.qty - nb_ord.filled) \div Lot) :
          LET d == j * Lot
          IN  /\ CanMatch(nb_ord.side, d)
              /\ nb_ord' = [nb_ord EXCEPT !.filled = @ + d,
                                          !.open = (nb_ord.filled + d < nb_ord.qty)]
              /\ holding' = holding + Signed(nb_ord.side, d)
    /\ UNCHANGED <<nb_pc, nb_now, nb_last_stats, nb_mean, nb_std, nb_z, nb_b_units,
                   nb_side, nb_orders, nb_rest, trk, nb_ret, nb_exc, store>>

\* the spot venue matches part of an order an earlier cycle left resting; the
\* match is followed where the loop spends its time, in the sleep between cycles
NbRestMatch ==
    /\ UNCHANGED <<cx_own, ps_vars, dec>>
    /\ nb_pc = "loop"
    /\ \E o \in BagToSet(nb_rest) :
          \E j \in 1 .. (o.left \div Lot) :
             LET d == j * Lot
                 others == nb_rest (-) SetToBag({o})
             IN  /\ CanMatch(o.side, d)
                 /\ nb_rest' = IF d < o.left
                               THEN others (+) SetToBag({[o EXCEPT !.left = @ - d]})
                               ELSE others
                 /\ holding' = holding + Signed(o.side, d)
    /\ UNCHANGED <<nb_pc, nb_now, nb_last_stats, nb_mean, nb_std, nb_z, nb_b_units,
                   nb_side, nb_orders, nb_ord, trk, nb_ret, nb_exc, store>>

-----------------------------------------------------------------------------
\* pos_store.py on the file system: instances sharing one store path, each
\* calling write_pos for its own symbol, and a reader calling read_pos.

\* json.dump reaches the file in this many pieces
NChunks == 2
\* the quantities the instances store are 1..MaxQty lots
MaxQty == 2

Writers == {1, 2}
Symbols == {"BTCUSDT", "ETHUSDT"}
SymOf(w) == IF w = 1 THEN "BTCUSDT" ELSE "ETHUSDT"
QtyValues == {j * Lot : j \in 1 .. MaxQty}

\* files: the store found at the start (0) and the one each instance creates
Inodes == {0} \cup Writers
NoInode == -1
\* a piece of a file nobody has written yet
Hole == -1

\* the parsed store: for every symbol its entry
EmptyData == [sym \in Symbols |-> NoEntry]
\* the store found at the start, when there is one
OldData == [sym \in Symbols |-> RecEntry(0)]

\* the file was written from its first piece to its last by one json.dump
Complete(c) == Len(c) = NChunks /\ c[1] # Hole /\ \A j \in 1 .. NChunks : c[j] = c[1]

\* what json.dump of instance w (0: the store found at the start) wrote
Dumped(w) == IF w = 0 THEN OldData ELSE wp[w].data

\* json.load of the file the store path names: the data, or a failure
CanLoad == fs_path # NoInode /\ Complete(inode[fs_path])
Loaded == Dumped(inode[fs_path][1])

\* f.write of piece j by instance w into a file of content c
WriteAt(c, j, w) ==
    [i \in 1 .. Max(Len(c), j) |-> IF i = j THEN w ELSE IF i <= Len(c) THEN c[i] ELSE Hole]

NoCall == [pc |-> "idle", data |-> EmptyData, fd |-> NoInode, off |-> 0, qty |-> 0]
NoRead == [found |-> "none", val |-> NoEntry]

\* no write_pos or read_pos call is followed at the level of files
PsOff ==
    /\ fs_path = NoInode
    /\ fs_tmp = NoInode
    /\ inode = [i \in Inodes |-> <<>>]
    /\ wp = [w \in Writers |-> NoCall]
    /\ rd = NoRead

\* the store file is absent or holds the entries of earlier runs
PsInit ==
    /\ fs_path \in {NoInode, 0}
    /\ fs_tmp = NoInode
    /\ inode = [i \in Inodes |-> IF i = 0 /\ fs_path = 0
                                 THEN [j \in 1 .. NChunks |-> 0] ELSE <<>>]
    /\ wp = [w \in Writers |-> NoCall]
    /\ rd = NoRead

\* write_pos, lines 26-46: read the whole store when the file exists ({} when
\* it cannot be parsed), then set the entry of the symbol
set_entry(data, sym, qty) == [data EXCEPT ![sym] = write_pos(qty)]

WpLoad(w) ==
    /\ UNCHANGED <<cx_own, nb_vars, store, dec>>
    /\ wp[w].pc = "idle"
    /\ \E qty \in QtyValues :
          LET data == IF CanLoad THEN Loaded ELSE EmptyData
          IN  wp' = [wp EXCEPT ![w] = [NoCall EXCEPT !.pc = "loaded", !.qty = qty,
                                         !.data = set_entry(data, SymOf(w), qty)]]
    /\ UNCHANGED <<fs_path, fs_tmp, inode, rd>>

\* write_pos, lines 47-48: open(path + ".tmp", "w") creates the file or
\* truncates the one that is there
WpOpenTmp(w) ==
    /\ UNCHANGED <<cx_own, nb_vars, store, dec>>
    /\ wp[w].pc = "loaded"
    /\ LET f == IF fs_tmp = NoInode THEN w ELSE fs_tmp
       IN  /\ fs_tmp' = f
           /\ inode' = [inode EXCEPT ![f] = <<>>]
           /\ wp' = [wp EXCEPT ![w].pc = "dump", ![w].fd = f, ![w].off = 0]
    /\ UNCHANGED <<fs_path, rd>>

\* write_pos, line 49: json.dump writes the next piece at the offset of the
\* instance's own file object; the with block closes the file after the last
WpDump(w) ==
    /\ UNCHANGED <<cx_own, nb_vars, store, dec>>
    /\ wp[w].pc = "dump"
    /\ LET j == wp[w].off + 1
       IN  /\ inode' = [inode EXCEPT ![wp[w].fd] = WriteAt(@, j, w)]
           /\ wp' = [wp EXCEPT ![w].off = j,
                               ![w].pc = IF j = NChunks THEN "replace" ELSE "dump"]
    /\ UNCHANGED <<fs_path, fs_tmp, rd>>

\* write_pos, line 50: os.replace(tmp, path); FileNotFoundError when another
\* instance has already moved the temporary file away
WpReplace(w) ==
    /\ UNCHANGED <<cx_own, nb_vars, store, dec>>
    /\ wp[w].pc = "replace"
    /\ IF fs_tmp = NoInode
       THEN /\ wp' = [wp EXCEPT ![w].pc = "raised"]
            /\ UNCHANGED <<fs_path, fs_tmp>>
       ELSE /\ fs_path' = fs_tmp
            /\ fs_tmp' = NoInode
            /\ wp' = [wp EXCEPT ![w].pc = "done"]
    /\ UNCHANGED <<inode, rd>>

\* read_pos, lines 12-19: data.get(symbol) of the parsed file; None when the
\* file is absent or cannot be parsed
ReadPos(sym) ==
    /\ UNCHANGED <<cx_own, nb_vars, store, dec>>
    /\ rd' = IF fs_path = NoInode THEN [found |-> "absent", val |-> NoEntry]
             ELSE IF ~CanLoad THEN [found |-> "partial", val |-> NoEntry]
             ELSE [found |-> "store", val |-> read_pos(Loaded[sym])]
    /\ rd' # rd
    /\ UNCHANGED <<fs_path, fs_tmp, inode, wp>>

-----------------------------------------------------------------------------
\* The decision of one hedger cycle (cnx_trade.py main, lines 215-238) as a
\* function of what the cycle reads, for any configuration k, l_units, u_units.

\* spot holdings 0..MaxHeld and futures positions -MaxCur..MaxCur are tried
MaxHeld == 5
MaxCur == 2

NoOut == [act |-> NONE, lower |-> 0, upper |-> 0, target |-> 0, delta |-> 0,
          side |-> NONE, need |-> 0, px |-> 0]

\* main, line 216: lower, upper = mean - k*std, mean + k*std
band(mean, std, kk) == [lower |-> mean - kk * std, upper |-> mean + kk * std]

\* main, lines 216-238: the band, the signal test, target, delta, side, need
\* and the taker price
decision(in) ==
    LET b == band(in.mean, in.std, in.k)
        target == center_from_b(in.held, in.l, in.u)
        delta == target - in.cur
        side == IF delta > 0 THEN "buy" ELSE "sell"
        need == Abs(delta)
        seen == [NoOut EXCEPT !.lower = b.lower, !.upper = b.upper]
    IN  IF ~(in.z > b.upper \/ in.z < b.lower)
        THEN [seen EXCEPT !.act = "no_signal"]
        ELSE IF need <= min_qty
        THEN [seen EXCEPT !.act = "in_tolerance", !.target = target, !.delta = delta,
                          !.side = side, !.need = need]
        ELSE [seen EXCEPT !.act = "order", !.target = target, !.delta = delta,
                          !.side = side, !.need = need,
                          !.px = IF side = "buy" THEN in.ba ELSE in.bb]

DecInputs ==
    [mean : {1000}, std : {100, 200}, k : {1, 2}, z : {500, 600, 1000, 1400, 1500},
     held : 0 .. MaxHeld, l : {-10}, u : {10}, cur : (-MaxCur) .. MaxCur,
     bb : {99}, ba : {101}]

NoInput == [mean |-> 0, std |-> 0, k |-> 0, z |-> 0, held |-> 0, l |-> 0, u |-> 0,
            cur |-> 0, bb |-> 0, ba |-> 0]

\* no decision is followed on its own
DecOff == dec = [pc |-> "off", in |-> NoInput, out |-> NoOut]

DecInit == \E in \in DecInputs : dec = [pc |-> "input", in |-> in, out |-> NoOut]

DecDecide ==
    /\ dec.pc = "input"
    /\ dec' = [dec EXCEPT !.pc = "decided", !.out = decision(dec.in)]
    /\ UNCHANGED <<cx_own, nb_vars, store, ps_vars>>

-----------------------------------------------------------------------------
\* The two programs are separate processes; a run follows one of them.

vars == <<cx_pc, cx_now, cx_last_stats_ts, cx_mean, cx_std, cx_z, cx_cur,
          cx_side, cx_need, cx_prec, fok, cx_ok, cx_exc, vpos, ord, store, writes, cx_attempts, cx_log,
          nb_pc, nb_now, nb_last_stats, nb_mean, nb_std, nb_z, nb_b_units,
          nb_side, nb_orders, nb_ord, nb_rest, holding, trk, nb_ret, nb_exc,
          fs_path, fs_tmp, inode, wp, rd, dec>>

\* the hedger is not the program of this run
CxOff ==
    /\ cx_pc = "off"
    /\ cx_now = 0
    /\ cx_last_stats_ts = 0
    /\ cx_mean = 0
    /\ cx_std = 0
    /\ cx_z = NoZ
    /\ cx_cur = 0
    /\ cx_side = NONE
    /\ cx_need = 0
    /\ cx_prec = 0
    /\ fok = NoFok
    /\ cx_ok = NONE
    /\ cx_exc = NONE
    /\ vpos = 0
    /\ ord = NoOrder
    /\ writes = 0
    /\ cx_attempts = 0
    /\ cx_log = NoLog

\* the maker is not the program of this run
NbOff ==
    /\ nb_pc = "off"
    /\ nb_now = 0
    /\ nb_last_stats = 0
    /\ nb_mean = 0
    /\ nb_std = 0
    /\ nb_z = NoZ
    /\ nb_b_units = 0
    /\ nb_side = NONE
    /\ nb_orders = 0
    /\ nb_ord = NoSpotOrder
    /\ nb_rest = EmptyBag
    /\ holding = 0
    /\ trk = NoTrk
    /\ nb_ret = NoRet
    /\ nb_exc = NONE

Init ==
    \/ CxInit /\ NbOff /\ PsOff /\ DecOff
    \/ NbInit /\ CxOff /\ PsOff /\ DecOff
       /\ store \in {NoEntry, RecEntry(0), NumEntry(0), NumEntry(Scale)}

Next ==
    \/ CxRefresh
    \/ CxSignal
    \/ CxPlace
    \/ CxVenueMatch
    \/ CxCheck
    \/ CxCancel
    \/ CxRevert
    \/ CxReconcile
    \/ NbRefresh
    \/ NbSignal
    \/ NbTrackBook
    \/ NbTrackCheck
    \/ NbTrackDiff
    \/ NbTrackCancel
    \/ NbAfterTrack
    \/ NbExcept
    \/ NbVenueMatch
    \/ NbRestMatch

Spec == Init /\ [][Next]_vars

\* Instances sharing one store path: two write_pos calls for two symbols and
\* the read_pos calls of a reader, their steps interleaved.
StoreInit == CxOff /\ NbOff /\ store = NoEntry /\ PsInit /\ DecOff

StoreNext ==
    \/ \E w \in Writers : WpLoad(w)
    \/ \E w \in Writers : WpOpenTmp(w)
    \/ \E w \in Writers : WpDump(w)
    \/ \E w \in Writers : WpReplace(w)
    \/ \E sym \in Symbols : ReadPos(sym)

StoreSpec == StoreInit /\ [][StoreNext]_vars

\* One decision of the hedger on given inputs.
DecisionInit == CxOff /\ NbOff /\ store = NoEntry /\ PsOff /\ DecInit

DecisionNext == DecDecide

DecisionSpec == DecisionInit /\ [][DecisionNext]_vars

-----------------------------------------------------------------------------
\* Properties of fok_taker. Once the call has returned, cx_ok holds what it
\* returned ("True" or "False") and fok what it saw and did.

FokReturned == cx_ok # NONE
\* the status check reported a partial fill / no fill / a full fill
FokPartial == fok.checked /\ 0 < fok.matched /\ fok.matched < fok.q
FokNothing == fok.checked /\ fok.matched = 0 /\ fok.matched < fok.q
FokFull == fok.checked /\ fok.matched >= fok.q

\* C1: a call of fok_taker that returns False and in which no venue call
\* raised leaves the venue's net position where it was before the call,
\* whatever the venue matched between the status check and the cancel.
C1_PositionNeutral ==
    (FokReturned /\ cx_ok = "False" /\ ~fok.raised) => vpos = fok.pos0

\* C2 as claimed: after a partial fill m the call cancels, issues exactly one
\* market order of m on the opposite side and returns False; after no fill it
\* cancels, issues no compensating order and returns False.
C2_AlwaysReverts ==
    /\ (FokReturned /\ FokPartial) =>
          /\ fok.nCancel = 1
          /\ fok.reverts = <<[side |-> IF cx_side = "buy" THEN "sell" ELSE "buy",
                              qty |-> fok.matched]>>
          /\ cx_ok = "False"
    /\ (FokReturned /\ FokNothing) =>
          /\ fok.nCancel = 1
          /\ fok.reverts = <<>>
          /\ cx_ok = "False"

\* C2 as amended: after a partial fill m the call calls cancel once and returns
\* False; it issues exactly one market order of m on the opposite side when the
\* cancel call returned, and no compensating order when the cancel call raised.
\* After no fill it calls cancel once, issues no compensating order and
\* returns False.
C2_CancelThenRevert ==
    /\ (FokReturned /\ FokPartial) =>
          /\ fok.nCancel = 1
          /\ cx_ok = "False"
          /\ fok.reverts =
                IF fok.cancelRaised THEN <<>>
                ELSE <<[side |-> IF cx_side = "buy" THEN "sell" ELSE "buy",
                        qty |-> fok.matched]>>
    /\ (FokReturned /\ FokNothing) =>
          /\ fok.nCancel = 1
          /\ fok.reverts = <<>>
          /\ cx_ok = "False"

\* a partial fill of a buy was reverted by one market sell
C2_Witness ==
    /\ FokReturned /\ FokPartial
    /\ cx_side = "buy"
    /\ ~fok.cancelRaised
    /\ Len(fok.reverts) = 1

\* C3: when the status check reports matched >= requested the call returns True
\* and issues neither a cancel nor a compensating order; the call returns True
\* only then, or when the rounded quantity is <= 0.
C3_TrueIffFilled ==
    /\ FokFull => /\ FokReturned
                  /\ cx_ok = "True"
                  /\ fok.nCancel = 0
                  /\ fok.reverts = <<>>
    /\ (FokReturned /\ cx_ok = "True") => (FokFull \/ fok.q <= 0)
    /\ (FokReturned /\ fok.q <= 0) => (cx_ok = "True" /\ ~fok.sent)

\* the limit order was fully matched within the wait and the call returned True
C3_Witness ==
    /\ FokReturned /\ FokFull
    /\ fok.q > 0
    /\ cx_ok = "True"

-----------------------------------------------------------------------------
\* Properties of track_and_cancel. trk holds what the current poll tick has
\* seen; control is back in main at "tracked" (a return) or "except" (a raise).

TrkFilled == trk.checked /\ trk.status \in {"finished", "filled", "done", "complete"}
                         /\ trk.unmatched = 0
\* the best-price condition on the price the order was placed at
OwnNotBest ==
    \/ nb_side = "buy" /\ nb_ord.price < trk.bid
    \/ nb_side = "sell" /\ nb_ord.price > trk.ask
TrkInBand ==
    /\ trk.z # NoZ
    /\ nb_mean - k * nb_std < trk.z[1]
    /\ trk.z[1] < nb_mean + k * nb_std
\* cancel has been decided for this reason and is called exactly once
TrkCancelsFor(reason) ==
    /\ trk.reason = reason
    /\ \/ nb_pc = "t_cancel" /\ trk.cancels = 0
       \/ nb_pc = "tracked" /\ trk.cancels = 1 /\ nb_ret.state = reason

\* C4: every order that enters tracking ends in exactly one of FILLED,
\* NOT_BEST, NO_SIGNAL, TIMEOUT: when control is back in main,
\* track_and_cancel has returned one of the four.
C4_TrackingEndsInOutcome ==
    (trk.entered /\ nb_pc \in {"tracked", "except"}) => nb_ret.state \in Outcomes

\* C5: the checks of a poll tick apply in the order fill, best price, signal
\* decay, timeout: a tick that sees the order fully matched returns FILLED
\* without a cancel whatever the book is, and when several cancel conditions
\* hold at a tick (the order's own price no longer the best, z inside the band,
\* the timeout exceeded) the outcome is the first of them in that order.
C5_PollPriority ==
    /\ TrkFilled => /\ nb_pc = "tracked"
                    /\ nb_ret.state = "FILLED"
                    /\ trk.cancels = 0
                    /\ trk.z = NoZ
    /\ trk.reason = "NOT_BEST" => (trk.checked /\ ~TrkFilled)
    /\ trk.reason = "NO_SIGNAL" => (~TrkFilled /\ ~OwnNotBest)
    /\ trk.reason = "TIMEOUT" => (~TrkFilled /\ ~OwnNotBest /\ ~TrkInBand)

\* C6: at a poll tick that finds the order not fully matched and the price it
\* was placed at strictly worse than the best on its side, the tracker calls
\* cancel exactly once and returns NOT_BEST.
C6_NotBestOnOwnPrice ==
    (trk.checked /\ ~TrkFilled /\ OwnNotBest) => TrkCancelsFor("NOT_BEST")

C8_ReportsVenueMatched ==
    (nb_pc = "tracked" /\ nb_ret.state \in {"NOT_BEST", "NO_SIGNAL", "TIMEOUT"}) =>
        /\ nb_ret.matched = nb_ord.filled
        /\ nb_ret.notional = nb_ord.filled * nb_ord.price
        /\ nb_orders = 1

-----------------------------------------------------------------------------
\* Properties of the two control loops.

\* C9: no order is placed in a cycle in which the standard deviation the loop
\* holds is <= 0.
C9_NoOrderWhenStdZero ==
    /\ fok.placed => cx_std > 0
    /\ nb_orders > 0 => nb_std > 0

\* C10: no loop places an order in a cycle with lower <= z <= upper; the maker
\* places a buy only with z > upper, a sell only with z < lower, and at most
\* one order per cycle.
C10_SignalGating ==
    /\ fok.sent =>
          /\ cx_z # NoZ
          /\ ~(cx_mean - k * cx_std <= cx_z[1] /\ cx_z[1] <= cx_mean + k * cx_std)
    /\ nb_orders <= 1
    /\ nb_orders = 1 =>
          /\ nb_z # NoZ
          /\ \/ nb_side = "buy" /\ nb_z[1] > nb_mean + k * nb_std
             \/ nb_side = "sell" /\ nb_z[1] < nb_mean - k * nb_std

\* the hedger has sent an order in a cycle with z above the band
C10_Witness ==
    /\ fok.sent
    /\ cx_std > 0
    /\ cx_z # NoZ
    /\ cx_z[1] > cx_mean + k * cx_std

-----------------------------------------------------------------------------
\* Properties of the maker's guards.

\* the maker has called new_order in this cycle and the cycle is not over
NbOrdered == nb_orders = 1 /\ nb_pc # "loop"

\* the inventory guard held for the balance read in the cycle of the order
InventoryGuarded ==
    NbOrdered =>
        /\ nb_side = "buy" => nb_b_units + order_qty <= u_units
        /\ nb_side = "sell" => nb_b_units - order_qty >= l_units

\* C11: a spot holding that starts inside [l_units, u_units] and changes only
\* by fills of the maker's orders stays inside [l_units, u_units]; a buy is
\* placed only with holding + order_qty <= u_units and a sell only with
\* holding - order_qty >= l_units.
C11_InventoryBound ==
    /\ nb_pc # "off" => (l_units <= holding /\ holding <= u_units)
    /\ InventoryGuarded

\* the order of the cycle followed a position read strictly inside the band
\* around center = (l_units + u_units)/2 - holding
BandGuarded ==
    NbOrdered =>
        /\ store.kind = "num"
        /\ ((l_units + u_units) \div 2) - nb_b_units - t_units < store.q
        /\ store.q < ((l_units + u_units) \div 2) - nb_b_units + t_units

\* C12: the maker places an order in a cycle only if the hedge position read
\* in the cycle is strictly inside (center - t_units, center + t_units), and
\* with no position persisted the guard is evaluated with position 0 (it does
\* not fail).
C12_HedgeBand ==
    /\ BandGuarded
    /\ (nb_pc # "off" /\ store.kind = "none") => nb_exc # "within_tobit_window"

-----------------------------------------------------------------------------
\* Properties of the position store.

\* a hedger cycle that called fok_taker has called write_pos exactly once when
\* it ends, and not before fok_taker returned; a cycle that did not call it
\* has not called write_pos
HedgerWritesOnce ==
    /\ cx_attempts <= 1
    /\ writes <= cx_attempts
    /\ cx_pc = "loop" => writes = cx_attempts
    /\ cx_pc \in {"live", "price", "placed", "cancel", "revert", "reconcile"} =>
          writes = 0
    /\ cx_attempts = 1 => cx_pc \in {"placed", "cancel", "revert", "reconcile",
                                      "loop", "crashed"}
    /\ cx_pc \in {"placed", "cancel", "revert", "reconcile"} =>
          (cx_attempts = 1 /\ cx_z # NoZ /\ cx_side # NONE)

\* C13: every cycle that attempts an order (fok_taker in the hedger, new_order
\* in the maker) ends with exactly one write to the position store, made after
\* the order's outcome is known; a cycle that attempts no order writes nothing.
C13_OneWritePerAttempt ==
    /\ HedgerWritesOnce
    /\ nb_pc = "loop" => writes = nb_orders

\* the hedger has stored the position of the cycle that just ended
CxStored == cx_pc = "loop" /\ cx_log.ok # NONE

\* C14: after a hedger cycle whose order filled, the stored position is the
\* venue's position after the trade when the venue query is available, and
\* otherwise the previous position plus the requested quantity for a buy, minus
\* it for a sell; after a cycle whose order did not fill it is the previous
\* position, whatever else the cycle saw.
C14_LedgerReconciled ==
    CxStored =>
        /\ store.kind = "rec"
        /\ store.q = IF cx_log.ok = "False" THEN cx_log.cur
                     ELSE IF cx_log.api THEN cx_log.venue
                     ELSE IF cx_log.side = "buy" THEN cx_log.cur + cx_log.need
                     ELSE cx_log.cur - cx_log.need

\* a filled sell was stored without the venue query: previous position - need
C14_Witness ==
    /\ CxStored
    /\ cx_log.ok = "True" /\ ~cx_log.api /\ cx_log.side = "sell"
    /\ cx_log.need > 0
    /\ store = RecEntry(cx_log.cur - cx_log.need)

\* the quantity last persisted for the symbol, 0 when there is none
Persisted == IF store.kind = "none" THEN 0 ELSE store.q

\* C15: get_coinex_pos never fails and always yields a quantity: the venue's
\* position when the query succeeds, else the quantity write_pos last persisted
\* for the symbol, 0 when nothing was persisted; the value is usable as a
\* number in delta = target - cur.
C15_PositionIsQuantity ==
    cx_pc # "off" =>
        /\ \A api \in BOOLEAN :
              LET cur == get_coinex_pos(api, vpos, store)
              IN  /\ IsNum(cur)
                  /\ cur.q = IF api THEN vpos ELSE Persisted
        /\ cx_exc # "delta"

\* an error was raised in the maker's cycle before any order was attempted
NbCycleError == nb_pc = "except" /\ ~trk.entered /\ nb_exc # "new_order"

\* the maker's handler has the error: no order was placed in the cycle
MakerSurvives == NbCycleError => (nb_orders = 0 /\ ~nb_ord.open)

\* C16: neither control loop terminates because of an error raised inside one
\* cycle (live_diff, coinex_best, the statistics query, the balance read, the
\* store write): the cycle is abandoned with no order placed and the loop goes
\* on to a later cycle.
C16_LoopsSurviveErrors ==
    /\ MakerSurvives
    /\ cx_pc # "crashed"

\* both write_pos calls have returned
BothWritten == \A w \in Writers : wp[w].pc = "done"

\* C17: when two instances call write_pos on one store path for two symbols and
\* their steps interleave, then after both calls the store holds for each of the
\* two symbols the quantity its instance wrote.
C17_NoLostUpdate ==
    BothWritten =>
        /\ CanLoad
        /\ \A w \in Writers : Loaded[SymOf(w)] = RecEntry(wp[w].qty)

\* C18: at every instant, also while write_pos calls on the path are in
\* progress, the file the store path names is absent or a complete store
\* written by one write_pos call, and read_pos never finds a partial file.
C18_AtomicReplace ==
    /\ fs_path # NoInode => Complete(inode[fs_path])
    /\ rd.found # "partial"

\* the inputs of the scenario: mean 1000, std 200, k 2, z 1500, 5 units held,
\* bounds -10 and 10, current position 2
Scenario ==
    /\ dec.pc = "decided"
    /\ dec.in.mean = 1000 /\ dec.in.std = 200 /\ dec.in.k = 2 /\ dec.in.z = 1500
    /\ dec.in.held = 5 /\ dec.in.l = -10 /\ dec.in.u = 10 /\ dec.in.cur = 2

\* the band is (600, 1400), z = 1500 is a signal and an order is decided
ScenarioSignal ==
    /\ dec.out.lower = 600 /\ dec.out.upper = 1400
    /\ dec.out.act = "order"

\* C19 as claimed: in the scenario the band is (600, 1400), the signal is
\* active, the target is 0 and the delta -2, so the hedger sells 2 at the best
\* bid.
C19_ScenarioAsClaimed ==
    Scenario =>
        /\ ScenarioSignal
        /\ dec.out.target = 0 /\ dec.out.delta = -2
        /\ dec.out.side = "sell" /\ dec.out.need = 2
        /\ dec.out.px = dec.in.bb

\* C19: in the scenario the band is (600, 1400), the signal is active, the
\* target is (-10 + 10)/2 - 5 = -5 and the delta -5 - 2 = -7, so the hedger
\* sells 7 at the best bid.
C19_Scenario ==
    Scenario =>
        /\ ScenarioSignal
        /\ dec.out.target = -5 /\ dec.out.delta = -7
        /\ dec.out.side = "sell" /\ dec.out.need = 7
        /\ dec.out.px = dec.in.bb

C19_Witness == Scenario /\ dec.out.act = "order" /\ dec.out.need = 7

\* control is back in main after track_and_cancel was entered
BackInMain == trk.entered /\ nb_pc \in {"tracked", "except"}
\* the order of this cycle is fully matched, or a cancel was issued for it
Settled == (nb_ord.qty > 0 /\ nb_ord.filled = nb_ord.qty) \/ trk.cancels > 0
\* the maker's orders resting on the spot venue
LiveOrders == BagCardinality(nb_rest) + (IF nb_ord.open THEN 1 ELSE 0)

\* the tracker's normal returns leave no order behind
ReturnSettles == (BackInMain /\ nb_pc = "tracked") => (Settled /\ ~nb_ord.open)

\* C20: whenever control returns from tracking to the maker's main loop, by a
\* return or by an error raised in a venue call during tracking, the order
\* placed is fully matched or a cancel has been issued for it; so the instance
\* never has more than one live maker order on the spot venue.
C20_NoOrphanedOrder ==
    /\ BackInMain => Settled
    /\ LiveOrders <= 1

\* the hedger has stored a position computed locally that differs from cur
StoredSynthesized ==
    /\ CxStored
    /\ cx_log.ok = "True" /\ ~cx_log.api
    /\ store.q # cx_log.cur

\* C21: whenever the hedger stores a synthesized position that differs from
\* the position cur before the cycle, an order was placed on the venue and
\* fully matched, and the difference stored is the quantity of that order as
\* sent to the venue, after rounding down to the quantity precision.
C21_LedgerMovesByExecuted ==
    StoredSynthesized =>
        /\ cx_log.placed
        /\ cx_log.q > 0 /\ cx_log.matched = cx_log.q
        /\ Abs(store.q - cx_log.cur) = cx_log.q

\* a poll tick has just left the maker's order resting; trk.kept is the z it saw
LeftResting == trk.entered /\ trk.kept # NoZ

\* C22: a resting maker order is kept only while the signal that justified it
\* persists: at every poll tick after which a buy is left resting
\* z >= mean + k*std, and at every poll tick after which a sell is left resting
\* z <= mean - k*std.
C22_KeptWhileSignalPersists ==
    LeftResting =>
        /\ nb_side = "buy" => trk.kept[1] >= upper(nb_mean, nb_std)
        /\ nb_side = "sell" => trk.kept[1] <= lower(nb_mean, nb_std)

\* what the tracker does keep to: the z of such a tick is not strictly inside
\* the band
KeptOutsideBand == LeftResting => ~SignalVanished(trk.kept[1], nb_mean, nb_std)

====
